---- MODULE Spec2Model ----
(***************************************************************************)
(* NCBI GenBank data retriever (src/s28515_2025-2.py): search_taxid,       *)
(* fetch_records, parse_records, generate_csv, plot_lengths and main.      *)
(*                                                                         *)
(* Text is a sequence of one-character strings, so that str.split,         *)
(* str.startswith, slicing, str.strip and int() are computed on the        *)
(* characters as Python computes them.  An optional value (None or v) is   *)
(* <<>> or <<v>>.                                                          *)
(***************************************************************************)
EXTENDS Integers, Sequences, FiniteSets, TLC

\* ------------------------------------------------------------ bounds
MaxLines == 3    \* lines of one raw block (parse_records)
MaxBlocks == 2   \* raw blocks of one parse_records call
MaxCount == 3    \* count argument of a direct fetch_records call
MaxBatch == 3    \* batch_size argument of a direct fetch_records call
MaxRespLen == 4  \* characters of an efetch response in a direct call
MaxFound == 21   \* match count the esearch response reports to main
MaxDigits == 1   \* characters typed at a length prompt of main

\* ------------------------------------------------------------ Python values
None == <<>>
Some(v) == <<v>>

NL == "\n"
SP == " "
Whitespace == {SP, NL, "\t"}
Digits == {"0", "1", "2", "3", "4", "5", "6", "7", "8", "9"}

\* ------------------------------------------------------------ str methods
Last(s) == s[Len(s)]
Front(s) == SubSeq(s, 1, Len(s) - 1)

\* s[n:]
SliceFrom(s, n) == SubSeq(s, n + 1, Len(s))

\* s.startswith(p)
StartsWith(s, p) == Len(s) >= Len(p) /\ SubSeq(s, 1, Len(p)) = p

RECURSIVE SplitFrom(_, _, _, _)
SplitFrom(s, sep, i, cur) ==
    IF i > Len(s) THEN <<cur>>
    ELSE IF i + Len(sep) - 1 <= Len(s) /\ SubSeq(s, i, i + Len(sep) - 1) = sep
         THEN <<cur>> \o SplitFrom(s, sep, i + Len(sep), <<>>)
         ELSE SplitFrom(s, sep, i + 1, Append(cur, s[i]))

\* s.split(sep), sep non-empty: the segments between the leftmost
\* non-overlapping occurrences of sep; always at least one segment.
Split(s, sep) == SplitFrom(s, sep, 1, <<>>)

RECURSIVE TokensFrom(_, _, _)
TokensFrom(s, i, cur) ==
    IF i > Len(s) THEN (IF cur = <<>> THEN <<>> ELSE <<cur>>)
    ELSE IF s[i] \in Whitespace
         THEN (IF cur = <<>> THEN <<>> ELSE <<cur>>) \o TokensFrom(s, i + 1, <<>>)
         ELSE TokensFrom(s, i + 1, Append(cur, s[i]))

\* s.split(): the maximal runs of non-whitespace characters.
Tokens(s) == TokensFrom(s, 1, <<>>)

RECURSIVE LStrip(_)
LStrip(s) == IF s # <<>> /\ s[1] \in Whitespace THEN LStrip(Tail(s)) ELSE s

RECURSIVE RStrip(_)
RStrip(s) == IF s # <<>> /\ Last(s) \in Whitespace THEN RStrip(Front(s)) ELSE s

\* s.strip()
Strip(s) == RStrip(LStrip(s))

\* s.replace('\n', ' ')
ReplaceNL(s) == [i \in 1..Len(s) |-> IF s[i] = NL THEN SP ELSE s[i]]

DigitValue(c) ==
    CASE c = "0" -> 0 [] c = "1" -> 1 [] c = "2" -> 2 [] c = "3" -> 3
      [] c = "4" -> 4 [] c = "5" -> 5 [] c = "6" -> 6 [] c = "7" -> 7
      [] c = "8" -> 8 [] c = "9" -> 9

\* int(s) succeeds: a non-empty run of decimal digits (the texts of this
\* model hold no sign, underscore or non-ASCII digit).
IsInt(s) == s # <<>> /\ \A i \in 1..Len(s) : s[i] \in Digits

RECURSIVE IntOf(_)
IntOf(s) == IF s = <<>> THEN 0 ELSE 10 * IntOf(Front(s)) + DigitValue(Last(s))

DigitChar(d) ==
    CASE d = 0 -> "0" [] d = 1 -> "1" [] d = 2 -> "2" [] d = 3 -> "3"
      [] d = 4 -> "4" [] d = 5 -> "5" [] d = 6 -> "6" [] d = 7 -> "7"
      [] d = 8 -> "8" [] d = 9 -> "9"

RECURSIVE Str(_)
\* str(n) for n >= 0, as an f-string renders an int
Str(n) == IF n < 10 THEN <<DigitChar(n)>> ELSE Append(Str(n \div 10), DigitChar(n % 10))

\* ------------------------------------------------------------ literals
ACCESSION == <<"A", "C", "C", "E", "S", "S", "I", "O", "N">>
DEFINITION == <<"D", "E", "F", "I", "N", "I", "T", "I", "O", "N">>
LOCUS == <<"L", "O", "C", "U", "S">>
RecordSeparator == <<"/", "/", NL>>

\* ------------------------------------------------------------ parse_records
NoFields == [exc |-> "", accession |-> None, length |-> None, description |-> None]

Raise(f, e) == [f EXCEPT !.exc = e]

\* ScanLine with every assignment made only while the field is still None:
\* the first matching line would win.
ScanLineFirst(f, line) ==
    IF StartsWith(line, ACCESSION)
    THEN IF Len(Tokens(line)) < 2 THEN Raise(f, "IndexError")
         ELSE IF f.accession # None THEN f
         ELSE [f EXCEPT !.accession = Some(Tokens(line)[2])]
    ELSE IF StartsWith(line, DEFINITION)
    THEN IF f.description # None THEN f
         ELSE [f EXCEPT !.description = Some(Strip(ReplaceNL(SliceFrom(line, 12))))]
    ELSE IF StartsWith(line, LOCUS)
    THEN IF Len(Tokens(line)) < 3 THEN Raise(f, "IndexError")
         ELSE IF ~IsInt(Tokens(line)[3]) THEN Raise(f, "ValueError")
         ELSE IF f.length # None THEN f
         ELSE [f EXCEPT !.length = Some(IntOf(Tokens(line)[3]))]
    ELSE f

\* The body of `for line in lines` (lines 56-61): f holds accession, length
\* and description before the line, the result holds them after it, or the
\* exception the line raises (exc).
ScanLine(f, line) ==
    IF StartsWith(line, ACCESSION)
    THEN IF Len(Tokens(line)) < 2 THEN Raise(f, "IndexError")
         ELSE [f EXCEPT !.accession = Some(Tokens(line)[2])]
    ELSE IF StartsWith(line, DEFINITION)
    THEN [f EXCEPT !.description = Some(Strip(ReplaceNL(SliceFrom(line, 12))))]
    ELSE IF StartsWith(line, LOCUS)
    THEN IF Len(Tokens(line)) < 3 THEN Raise(f, "IndexError")
         ELSE IF ~IsInt(Tokens(line)[3]) THEN Raise(f, "ValueError")
         ELSE [f EXCEPT !.length = Some(IntOf(Tokens(line)[3]))]
    ELSE f

\* `if accession:` (line 62): None and the empty string are falsy.
Truthy(opt) == opt # None /\ opt[1] # <<>>

Row(f) == [accession |-> f.accession[1], length |-> f.length, description |-> f.description]

\* Lines 62-63: the row of a block is appended iff an accession was found.
EmitRow(rows, f) == IF Truthy(f.accession) THEN Append(rows, Row(f)) ELSE rows

RECURSIVE ScanLines(_, _)
\* The inner loop over all the lines of one block.
ScanLines(f, lines) ==
    IF lines = <<>> \/ f.exc # "" THEN f
    ELSE ScanLines(ScanLine(f, Head(lines)), Tail(lines))

RECURSIVE ParseFrom(_, _)
\* The outer loop: [exc, data] after the blocks left, given the rows so far.
ParseFrom(blocks, rows) ==
    IF blocks = <<>> THEN [exc |-> "", data |-> rows]
    ELSE LET f == ScanLines(NoFields, Split(Head(blocks), <<NL>>))
         IN  IF f.exc # "" THEN [exc |-> f.exc, data |-> rows]
             ELSE ParseFrom(Tail(blocks), EmitRow(rows, f))

\* parse_records(records) as a function of its argument.
ParseRecords(blocks) == ParseFrom(blocks, <<>>)

\* The lines the blocks of a parse_records call are made of: well-formed
\* and malformed lines of each marker, and a line of no marker.
LineAccession1 == ACCESSION \o <<SP, SP, SP, "A", "B", "1">>
LineAccession2 == ACCESSION \o <<SP, "C", "D", "2", SP, "Z">>
LineAccessionShort == ACCESSION
LineLocus1 == LOCUS \o <<SP, SP, "A", "B", "1", SP, SP, "1", "5", "0", "0", SP, "b", "p">>
LineLocus2 == LOCUS \o <<SP, "C", "D", "2", SP, "7">>
LineLocusShort == LOCUS \o <<SP, "A", "B", "1">>
LineLocusNoInt == LOCUS \o <<SP, "A", "B", "1", SP, "b", "p">>
LineDefinition1 == DEFINITION \o <<SP, SP, "T", "e", "s", "t", SP, "g", "e", "n", "e">>
LineDefinitionShort == DEFINITION
LineOther == <<"O", "R", "I", "G", "I", "N">>

Lines ==
    { LineAccession1, LineAccession2, LineAccessionShort,
      LineLocus1, LineLocus2, LineLocusShort, LineLocusNoInt,
      LineDefinition1, LineDefinitionShort, LineOther }

\* ------------------------------------------------------------ search_taxid
TxId == <<"t", "x", "i", "d">>
Organism == <<"[", "O", "r", "g", "a", "n", "i", "s", "m", "]">>
And == <<SP, "A", "N", "D", SP>>
SLen == <<"[", "S", "L", "E", "N", "]">>

\* `if min_len:` and `max_len or ''` on an optional int: None and 0 are falsy.
TruthyInt(opt) == opt # None /\ opt[1] # 0

\* Lines 24-26.
SearchTerm(id, lo, hi) ==
    TxId \o id \o Organism \o
    (IF TruthyInt(lo)
     THEN And \o Str(lo[1]) \o <<":">> \o (IF TruthyInt(hi) THEN Str(hi[1]) ELSE <<>>) \o SLen
     ELSE <<>>)

\* SearchResult without the test of the count.
SearchResultAlways(res) == Some(res)

\* Line 30: the esearch result, or None when it counts no record.
SearchResult(res) == IF IntOf(res.Count) > 0 THEN Some(res) ELSE None

\* ------------------------------------------------------------ fetch_records
DefaultBatchSize == 10
FetchLimit == 100

\* RangeHas counting whole strides only.
RangeHasWhole(start, stop, step) == start + step <= stop

\* `start in range(0, stop, step)` still has the value start (line 35).
RangeHas(start, stop, step) == start < stop

\* Line 45: handle.read().split('//\n')[:-1]
SplitBlocks(text) == Front(Split(text, RecordSeparator))

Request(s, n, w, q) == [retstart |-> s, retmax |-> n, webenv |-> w, query_key |-> q]

RECURSIVE TextsUpTo(_, _)
TextsUpTo(alphabet, n) ==
    IF n = 0 THEN {<<>>}
    ELSE LET shorter == TextsUpTo(alphabet, n - 1)
         IN  shorter \cup {Append(t, c) : t \in shorter, c \in alphabet}

\* What efetch may answer a direct fetch_records call: every text of record
\* characters and separator characters up to MaxRespLen.
ShortTexts == TextsUpTo({"r", "/", NL}, MaxRespLen)

\* What efetch may answer main: GenBank pages.
PageOne == LineLocus1 \o <<NL>> \o LineDefinition1 \o <<NL>> \o LineAccession1 \o <<NL>> \o RecordSeparator
PageUnterminated == LineAccession1 \o <<NL>> \o RecordSeparator \o LineAccession2 \o <<NL>>
PageMalformed == LineAccession2 \o <<NL>> \o LineLocusNoInt \o <<NL>> \o RecordSeparator
PageEmpty == <<>>
PageTexts == {PageOne, PageUnterminated, PageMalformed, PageEmpty}

WebEnvs == {"MCID_a", "MCID_b"}
QueryKeys == {"1"}

\* ------------------------------------------------------------ main
TaxIds == {<<"9", "6", "0", "6">>}
LengthInputs == TextsUpTo({"0", "5", "x"}, MaxDigits)
OutputInputs == {<<>>, <<"o", "u", "t">>}
DefaultOutput == <<"o", "u", "t", "p", "u", "t">>
NoRecordsFound == "No records found"

\* Lines 99-100: int(s) if s else None; ok is FALSE when int raises ValueError.
ToLength(s) ==
    IF s = <<>> THEN [ok |-> TRUE, value |-> None]
    ELSE IF IsInt(s) THEN [ok |-> TRUE, value |-> Some(IntOf(s))]
    ELSE [ok |-> FALSE, value |-> None]

Min(a, b) == IF a < b THEN a ELSE b

VARIABLES
    pc,        \* where the run stands
    exc,       \* the exception that ended the run ("" while none)
    calls,     \* the NCBIRetriever methods called so far, in order
    taxid, min_len, max_len, output,       \* main: the inputs after lines 93-100
    term,      \* the search term given to Entrez.esearch (None before)
    reported,  \* the Count of the esearch response (None before)
    results,   \* what search_taxid returned
    webenv, query_key, count, batch_size,  \* fetch_records: its arguments
    start,     \* fetch_records: the loop variable
    requests,  \* the Entrez.efetch requests issued so far, in order
    handle,    \* fetch_records: the text `handle` has still to give
    records,   \* fetch_records: the blocks gathered so far
    sleeps,    \* the time.sleep(0.34) calls made so far
    nrecords,  \* parse_records: blocks of `records` taken by the outer loop
    record,    \* parse_records: `lines` of the current block taken so far
    fields,    \* parse_records: accession, length, description (and a raised exception)
    data,      \* parse_records: the rows appended so far
    files,     \* the files written so far, in order
    exit_msg   \* the message of sys.exit ("" while none)

inputVars == <<taxid, min_len, max_len, output>>
searchVars == <<term, reported, results>>
fetchArgs == <<webenv, query_key, count, batch_size>>
fetchVars == <<start, requests, handle, records, sleeps>>
parseVars == <<nrecords, record, fields, data>>
outVars == <<files, exit_msg>>

vars == <<pc, exc, calls, inputVars, searchVars, fetchArgs, fetchVars, parseVars, outVars>>

\* fetch_fail with the exception swallowed: the loop goes on to the next page.
fetch_fail_skip ==
    /\ pc = "fetch"
    /\ RangeHas(start, count, batch_size)
    /\ requests' = Append(requests, Request(start, batch_size, webenv, query_key))
    /\ exc' = "efetch"
    /\ start' = start + batch_size
    /\ pc' = "fetch"
    /\ UNCHANGED <<calls, inputVars, searchVars, fetchArgs, handle, records, sleeps, parseVars, outVars>>

\* fetch_sleep sleeping only between two pages, not after the last one.
fetch_sleep_between ==
    /\ pc = "sleep"
    /\ sleeps' = IF RangeHas(start + batch_size, count, batch_size) THEN sleeps + 1 ELSE sleeps
    /\ start' = start + batch_size
    /\ pc' = "fetch"
    /\ UNCHANGED <<exc, calls, inputVars, searchVars, fetchArgs, requests, handle, records, parseVars, outVars>>

\* The state before anything ran.
Blank ==
    /\ exc = ""
    /\ taxid = <<>> /\ min_len = None /\ max_len = None /\ output = <<>>
    /\ term = None /\ reported = None /\ results = None
    /\ start = 0 /\ requests = <<>> /\ handle = <<>> /\ records = <<>> /\ sleeps = 0
    /\ nrecords = 0 /\ record = <<>> /\ fields = NoFields /\ data = <<>>
    /\ files = <<>> /\ exit_msg = ""

\* ------------------------------------------------------------ parse_records, step by step
\* parse_records never looks ahead in its argument, so its blocks and their
\* lines are drawn as the loops reach them.
InitParse ==
    /\ Blank
    /\ pc = "for_record"
    /\ calls = <<"parse_records">>
    /\ webenv = "" /\ query_key = "" /\ count = 0 /\ batch_size = DefaultBatchSize

\* `for record in records` takes a block (lines 52-54).
parse_next_record ==
    /\ pc = "for_record"
    /\ nrecords < MaxBlocks
    /\ nrecords' = nrecords + 1
    /\ record' = <<>>
    /\ fields' = NoFields
    /\ pc' = "for_line"
    /\ UNCHANGED <<exc, calls, inputVars, searchVars, fetchArgs, fetchVars, data, outVars>>

\* `for line in lines` takes a line (lines 55-61); an exception leaves the call.
parse_next_line ==
    /\ pc = "for_line"
    /\ Len(record) < MaxLines
    /\ \E line \in Lines :
          /\ record' = Append(record, line)
          /\ fields' = ScanLine(fields, line)
    /\ pc' = IF fields'.exc # "" THEN "raised" ELSE "for_line"
    /\ exc' = fields'.exc
    /\ UNCHANGED <<calls, inputVars, searchVars, fetchArgs, fetchVars, nrecords, data, outVars>>

\* The lines of the block are exhausted (str.split gives at least one): lines 62-63.
parse_end_record ==
    /\ pc = "for_line"
    /\ Len(record) >= 1
    /\ data' = EmitRow(data, fields)
    /\ pc' = "for_record"
    /\ UNCHANGED <<exc, calls, inputVars, searchVars, fetchArgs, fetchVars, nrecords, record, fields, outVars>>

\* `return data` (line 64).
parse_return ==
    /\ pc = "for_record"
    /\ pc' = "returned"
    /\ UNCHANGED <<exc, calls, inputVars, searchVars, fetchArgs, fetchVars, parseVars, outVars>>

NextParse ==
    \/ parse_next_record
    \/ parse_next_line
    \/ parse_end_record
    \/ parse_return

SpecParse == InitParse /\ [][NextParse]_vars

\* ------------------------------------------------------------ fetch_records, step by step
\* Entrez.efetch (lines 36-44): the request is issued and answered with a
\* handle on one of `texts`.
fetch_efetch(texts) ==
    /\ pc = "fetch"
    /\ RangeHas(start, count, batch_size)
    /\ requests' = Append(requests, Request(start, batch_size, webenv, query_key))
    /\ handle' \in texts
    /\ pc' = "read"
    /\ UNCHANGED <<exc, calls, inputVars, searchVars, fetchArgs, start, records, sleeps, parseVars, outVars>>

\* Line 45: the handle is read to its end and the blocks of the text are gathered.
fetch_read ==
    /\ pc = "read"
    /\ records' = records \o SplitBlocks(handle)
    /\ handle' = <<>>
    /\ pc' = "sleep"
    /\ UNCHANGED <<exc, calls, inputVars, searchVars, fetchArgs, start, requests, sleeps, parseVars, outVars>>

\* The request is issued and Entrez.efetch raises: nothing catches it, in
\* fetch_records or in main.
fetch_fail ==
    /\ pc = "fetch"
    /\ RangeHas(start, count, batch_size)
    /\ requests' = Append(requests, Request(start, batch_size, webenv, query_key))
    /\ exc' = "efetch"
    /\ pc' = "crashed"
    /\ UNCHANGED <<calls, inputVars, searchVars, fetchArgs, start, handle, records, sleeps, parseVars, outVars>>

\* handle.read() raises while the response is read: not caught either.
fetch_read_fail ==
    /\ pc = "read"
    /\ exc' = "efetch"
    /\ pc' = "crashed"
    /\ UNCHANGED <<calls, inputVars, searchVars, fetchArgs, fetchVars, parseVars, outVars>>

\* time.sleep(0.34) and the next value of the range (lines 46, 35).
fetch_sleep ==
    /\ pc = "sleep"
    /\ sleeps' = sleeps + 1
    /\ start' = start + batch_size
    /\ pc' = "fetch"
    /\ UNCHANGED <<exc, calls, inputVars, searchVars, fetchArgs, requests, handle, records, parseVars, outVars>>

\* The range is exhausted: `return records` (line 47).
fetch_return ==
    /\ pc = "fetch"
    /\ ~RangeHas(start, count, batch_size)
    /\ pc' = "fetched"
    /\ UNCHANGED <<exc, calls, inputVars, searchVars, fetchArgs, fetchVars, parseVars, outVars>>

\* A direct call fetch_records(webenv, query_key, count, batch_size).
InitFetch ==
    /\ Blank
    /\ pc = "fetch"
    /\ calls = <<"fetch_records">>
    /\ webenv \in WebEnvs
    /\ query_key \in QueryKeys
    /\ count \in 0..MaxCount
    /\ batch_size \in 1..MaxBatch

NextFetch ==
    \/ fetch_efetch(ShortTexts)
    \/ fetch_read
    \/ fetch_fail
    \/ fetch_read_fail
    \/ fetch_sleep
    \/ fetch_return

SpecFetch == InitFetch /\ [][NextFetch]_vars

\* ------------------------------------------------------------ main
Init ==
    /\ Blank
    /\ pc = "input"
    /\ calls = <<>>
    /\ webenv = "" /\ query_key = "" /\ count = 0 /\ batch_size = DefaultBatchSize

\* Lines 91-100: the prompts are answered and the lengths converted; a
\* non-numeric length raises ValueError before anything is searched.
main_input ==
    /\ pc = "input"
    /\ \E id \in TaxIds, lo \in LengthInputs, hi \in LengthInputs, out \in OutputInputs :
          /\ taxid' = id
          /\ output' = IF out = <<>> THEN DefaultOutput ELSE out
          /\ min_len' = ToLength(lo).value
          /\ max_len' = IF ToLength(lo).ok THEN ToLength(hi).value ELSE None
          /\ pc' = IF ToLength(lo).ok /\ ToLength(hi).ok THEN "search" ELSE "crashed"
          /\ exc' = IF ToLength(lo).ok /\ ToLength(hi).ok THEN "" ELSE "ValueError"
    /\ UNCHANGED <<calls, searchVars, fetchArgs, fetchVars, parseVars, outVars>>

\* Line 105, search_taxid (lines 24-30): the term is built and searched, the
\* response reports n matches under a history session.
main_search ==
    /\ pc = "search"
    /\ calls' = Append(calls, "search_taxid")
    /\ term' = Some(SearchTerm(taxid, min_len, max_len))
    /\ \E n \in 0..MaxFound, w \in WebEnvs, q \in QueryKeys :
          /\ reported' = Some(Str(n))
          /\ results' = SearchResult([Count |-> Str(n), WebEnv |-> w, QueryKey |-> q])
    /\ pc' = "searched"
    /\ UNCHANGED <<exc, inputVars, fetchArgs, fetchVars, parseVars, outVars>>

\* Entrez.esearch or Entrez.read raises: nothing catches it.
main_search_fail ==
    /\ pc = "search"
    /\ calls' = Append(calls, "search_taxid")
    /\ term' = Some(SearchTerm(taxid, min_len, max_len))
    /\ exc' = "esearch"
    /\ pc' = "crashed"
    /\ UNCHANGED <<inputVars, reported, results, fetchArgs, fetchVars, parseVars, outVars>>

\* Lines 107-108.
main_no_records ==
    /\ pc = "searched"
    /\ results = None
    /\ exit_msg' = NoRecordsFound
    /\ pc' = "exit"
    /\ UNCHANGED <<exc, calls, inputVars, searchVars, fetchArgs, fetchVars, parseVars, files>>

\* Lines 110-113: fetch_records is called with at most FetchLimit records
\* and the default batch size.
main_fetch ==
    /\ pc = "searched"
    /\ results # None
    /\ calls' = Append(calls, "fetch_records")
    /\ webenv' = results[1].WebEnv
    /\ query_key' = results[1].QueryKey
    /\ count' = Min(IntOf(results[1].Count), FetchLimit)
    /\ batch_size' = DefaultBatchSize
    /\ start' = 0
    /\ records' = <<>>
    /\ pc' = "fetch"
    /\ UNCHANGED <<exc, inputVars, searchVars, requests, handle, sleeps, parseVars, outVars>>

\* Line 114: parse_records on the gathered blocks; its exception is not caught.
main_parse ==
    /\ pc = "fetched"
    /\ calls' = Append(calls, "parse_records")
    /\ LET r == ParseRecords(records)
       IN  /\ exc' = r.exc
           /\ data' = IF r.exc = "" THEN r.data ELSE <<>>
           /\ pc' = IF r.exc = "" THEN "parsed" ELSE "crashed"
    /\ UNCHANGED <<inputVars, searchVars, fetchArgs, fetchVars, nrecords, record, fields, outVars>>

CsvSuffix == <<".", "c", "s", "v">>
PngSuffix == <<".", "p", "n", "g">>

\* Lines 116-117, generate_csv: the rows are written in their order.
main_csv ==
    /\ pc = "parsed"
    /\ calls' = Append(calls, "generate_csv")
    /\ files' = Append(files, [name |-> output \o CsvSuffix, rows |-> data])
    /\ pc' = "csv_saved"
    /\ UNCHANGED <<exc, inputVars, searchVars, fetchArgs, fetchVars, parseVars, exit_msg>>

\* Lines 120-121, plot_lengths: the chart of the same rows is saved (the
\* image is kept as the rows it draws).
main_plot ==
    /\ pc = "csv_saved"
    /\ calls' = Append(calls, "plot_lengths")
    /\ files' = Append(files, [name |-> output \o PngSuffix, rows |-> data])
    /\ pc' = "done"
    /\ UNCHANGED <<exc, inputVars, searchVars, fetchArgs, fetchVars, parseVars, exit_msg>>

Next ==
    \/ main_input
    \/ main_search
    \/ main_search_fail
    \/ main_no_records
    \/ main_fetch
    \/ fetch_efetch(PageTexts)
    \/ fetch_read
    \/ fetch_fail
    \/ fetch_read_fail
    \/ fetch_sleep
    \/ fetch_return
    \/ main_parse
    \/ main_csv
    \/ main_plot

Spec == Init /\ [][Next]_vars

\* ------------------------------------------------------------ properties
Range(s) == {s[i] : i \in 1..Len(s)}
Max(S) == CHOOSE x \in S : \A y \in S : y <= x
Ceil(a, b) == (a + b - 1) \div b
IsPrefix(s, t) == Len(s) <= Len(t) /\ s = SubSeq(t, 1, Len(s))

\* The indices of the lines of a block that begin with a marker, and the last such line.
LinesWith(block, marker) == {i \in 1..Len(block) : StartsWith(block[i], marker)}
LastWith(block, marker) == block[Max(LinesWith(block, marker))]

\* The scan of a block has just ended with its row appended.
RowEmitted == pc \in {"for_record", "returned"} /\ nrecords > 0 /\ Truthy(fields.accession)

\* This step ends the scan of a block: its lines are exhausted, or one raised.
EndsBlock == pc = "for_line" /\ pc' # "for_line"

\* C1: when the search reports a match count of zero, search_taxid returns
\* None and the run stops right after the search: main exits with "No
\* records found", no efetch request is issued, parse_records is not called
\* and no file is written.
C1_ZeroMatchesStop ==
    (reported # None /\ IntOf(reported[1]) = 0) =>
        /\ results = None
        /\ pc \in {"searched", "exit"}
        /\ pc = "exit" => exit_msg = NoRecordsFound
        /\ calls = <<"search_taxid">>
        /\ requests = <<>>
        /\ files = <<>>

C1_Witness == pc = "exit" /\ exit_msg = NoRecordsFound /\ reported = Some(<<"0">>)

\* The requests fetch_records(webenv, query_key, count, batch_size) is to issue.
ExpectedRequests ==
    [i \in 1..Ceil(count, batch_size) |->
        Request((i - 1) * batch_size, batch_size, webenv, query_key)]

\* C2: fetch_records issues its efetch requests in increasing offset order,
\* retstart = 0, batch_size, 2*batch_size, ... (all below count), each with
\* retmax = batch_size and the webenv and query_key of the call, and when it
\* returns it has issued exactly ceil(count / batch_size) of them.
C2_PageRequests ==
    /\ IsPrefix(requests, ExpectedRequests)
    /\ \A i \in 1..Len(requests) : requests[i].retstart < count
    /\ pc = "fetched" => requests = ExpectedRequests

C2_Witness ==
    pc = "fetched" /\ count % batch_size # 0 /\ batch_size > 1 /\ Len(requests) = 2

\* The blocks of a response when only a trailing empty segment is discarded.
ClaimedBlocks(text) ==
    LET segs == Split(text, RecordSeparator)
    IN  IF Last(segs) = <<>> THEN Front(segs) ELSE segs

\* C3: each batch adds to the returned list, in order, the separator-delimited
\* segments of its response, the only segment discarded being the trailing
\* empty one: no non-empty segment is dropped.
C3_OnlyTrailingEmptyDropped ==
    [][(pc = "read" /\ pc' = "sleep") => records' = records \o ClaimedBlocks(handle)]_vars

\* C4: for every block that contains a line beginning with ACCESSION,
\* parse_records emits a row for the block whose accession is the second
\* whitespace-delimited token of such a line, whatever LOCUS and DEFINITION
\* lines the block holds (stated for the blocks whose ACCESSION lines all
\* have a second token).
C4_AccessionLineGivesRow ==
    [][(/\ EndsBlock
        /\ LinesWith(record', ACCESSION) # {}
        /\ \A i \in LinesWith(record', ACCESSION) : Len(Tokens(record'[i])) >= 2) =>
          /\ Len(data') = Len(data) + 1
          /\ \E i \in LinesWith(record', ACCESSION) :
                Last(data').accession = Tokens(record'[i])[2]]_vars

\* C5: parse_records never fails because a block is malformed, and a block
\* with an accession but no LOCUS or DEFINITION line yields a row whose length
\* or description is None.
C5_NeverFailsOnMalformed ==
    /\ pc # "raised"
    /\ RowEmitted =>
          /\ LinesWith(record, LOCUS) = {} => Last(data).length = None
          /\ LinesWith(record, DEFINITION) = {} => Last(data).description = None

\* C6: parse_records emits rows in the order of their blocks, exactly one row
\* for each block in which an accession was found and none for a block with no
\* ACCESSION line, so that the rows never outnumber the blocks.
C6_OneRowPerAccessionBlock ==
    [][/\ Len(data') <= nrecords'
       /\ ~EndsBlock => data' = data
       /\ (EndsBlock /\ fields'.accession # None) =>
             /\ Front(data') = data
             /\ Len(data') = Len(data) + 1
             /\ Last(data').accession = fields'.accession[1]
       /\ (EndsBlock /\ LinesWith(record', ACCESSION) = {}) => data' = data]_vars

\* The search term of the claim: the length clause whenever a minimum is given.
ClaimedTerm(id, lo, hi) ==
    TxId \o id \o Organism \o
    (IF lo # None
     THEN And \o Str(lo[1]) \o <<":">> \o (IF hi # None THEN Str(hi[1]) ELSE <<>>) \o SLen
     ELSE <<>>)

\* C7: the search term is "txid<id>[Organism]", followed by the clause
\* " AND <min>:<max>[SLEN]" exactly when a minimum length is supplied (for
\* every integer minimum; <max> open-ended when no maximum is given), and by
\* no clause when only a maximum is supplied.
C7_TermHasClauseIffMinimum ==
    term # None => term[1] = ClaimedTerm(taxid, min_len, max_len)

\* C8: a failed efetch request is fatal for the run: it is not retried, it is
\* the last request issued, the blocks already fetched are not parsed and no
\* file is written; files are written only after every page was fetched.
C8_FetchFailureFatal ==
    /\ exc = "efetch" =>
          /\ pc = "crashed"
          /\ Last(requests).retstart = start
          /\ \A i, j \in 1..Len(requests) : i < j => requests[i].retstart < requests[j].retstart
          /\ "parse_records" \notin Range(calls)
          /\ data = <<>>
          /\ files = <<>>
    /\ files # <<>> =>
          /\ exc = ""
          /\ requests = ExpectedRequests

C8_Witness == exc = "efetch" /\ Len(requests) = 3 /\ records # <<>>

\* C9: every successful page retrieval is followed by one delay before the
\* next request or the return: the delays made are one fewer than the requests
\* exactly while the delay of the last page is pending (or its request
\* failed), and equal to the requests at every loop head and on return.
C9_OneDelayPerPage ==
    /\ pc \in {"read", "sleep", "crashed"} => sleeps + 1 = Len(requests)
    /\ pc \in {"fetch", "fetched"} => sleeps = Len(requests)

C9_Witness == pc = "fetched" /\ sleeps = 3 /\ Len(requests) = 3

\* C10: in an emitted row each field comes from the last line of the block
\* that begins with its marker (ACCESSION, LOCUS, DEFINITION), wherever the
\* lines of the three markers stand: earlier matching lines are overwritten.
C10_LastOccurrenceKept ==
    RowEmitted =>
        /\ Last(data).accession = Tokens(LastWith(record, ACCESSION))[2]
        /\ LinesWith(record, LOCUS) # {} =>
              Last(data).length = Some(IntOf(Tokens(LastWith(record, LOCUS))[3]))
        /\ LinesWith(record, DEFINITION) # {} =>
              Last(data).description = Some(Strip(SliceFrom(LastWith(record, DEFINITION), 12)))

C10_Witness ==
    /\ RowEmitted
    /\ \E i, j \in LinesWith(record, ACCESSION) :
          i < j /\ Tokens(record[i])[2] # Tokens(record[j])[2]

====
